---- MODULE Spec2Model ----
(***************************************************************************)
(* Model of the rad-claude skill-matching core: the confidence scorer      *)
(* (src/src/services/confidence-scorer.ts), the pattern matcher that ranks *)
(* a catalog with it, and the path validator and the log sanitizer         *)
(* (src/src/services/security.ts).  Each has its own specification: Spec   *)
(* and SpecTwo (one call, two calls in a row of calculateConfidence),      *)
(* SpecMatcher, SpecPath and SpecLog; the variables of the other parts     *)
(* stay as Init leaves them.                                               *)
(*                                                                         *)
(* Strings are TLA+ strings; a character is a string of length 1.  Numbers *)
(* are integers: the weights 0.4/0.3/0.3 are kept as tenths (4/3/3), which *)
(* leaves every quotient w_i / W unchanged.  The sub-scores the code can   *)
(* produce are 0, 70..100 (step 5), 80..100 (step 10) and 70..100          *)
(* (step 10); on all of these the exact weighted mean is at least 1/14     *)
(* away from a half-integer, so IEEE-754 double rounding noise never       *)
(* changes what Math.round returns and exact arithmetic gives the code's   *)
(* value.                                                                  *)
(***************************************************************************)
EXTENDS Integers, Sequences, FiniteSets, TLC

VARIABLES
    pc,         \* where the caller of calculateConfidence stands
    prompt,     \* the arguments of the call in progress
    skill,
    context,
    result,     \* its outcome
    lastIndex,  \* the lastIndex property of each RegExp of SEMANTIC_PATTERNS
    previous,   \* the call made before the one in progress, and its outcome
    matcherPc,  \* where the caller of the pattern matcher stands
    catalog,    \* the skills the matcher was given
    request,    \* its prompt, context and minimum confidence
    matcherResult,  \* its outcome
    pathPc,     \* where validatePath stands
    targetPath, \* its arguments
    allowedDir,
    fs,         \* the filesystem: what each path names
    resolvedAllowedDir,  \* the local variable of validatePath
    pathResult, \* its outcome
    fsChanges,  \* how often the filesystem changed during the call
    logPc,      \* where the caller of sanitizeErrorForLogging stands
    logError,   \* its argument
    logMessage  \* its outcome

scorerVars == <<pc, prompt, skill, context, result, lastIndex, previous>>

matcherVars == <<matcherPc, catalog, request, matcherResult>>

pathVars == <<pathPc, targetPath, allowedDir, fs, resolvedAllowedDir,
              pathResult, fsChanges>>

logVars == <<logPc, logError, logMessage>>

vars == <<scorerVars, matcherVars, pathVars, logVars>>

(***************************************************************************)
(* Bounds of the model.                                                    *)
(***************************************************************************)
MaxOpenFiles == 2

MaxCatalog == 2

MaxFsChanges == 1

(***************************************************************************)
(* JavaScript values: undefined, and optional values.                      *)
(***************************************************************************)
Undefined == [defined |-> FALSE]

Some(v) == [defined |-> TRUE, value |-> v]

\* a ?? b
NullishCoalesce(a, b) == IF a.defined THEN a.value ELSE b

(***************************************************************************)
(* String primitives.                                                      *)
(***************************************************************************)
Range(xs) == {xs[i] : i \in 1..Len(xs)}

CharAt(s, i) == SubSeq(s, i, i)

UpperChars == <<"A", "B", "C", "D", "E", "F", "G", "H", "I", "J", "K", "L", "M",
                "N", "O", "P", "Q", "R", "S", "T", "U", "V", "W", "X", "Y", "Z">>

LowerChars == <<"a", "b", "c", "d", "e", "f", "g", "h", "i", "j", "k", "l", "m",
                "n", "o", "p", "q", "r", "s", "t", "u", "v", "w", "x", "y", "z">>

\* the lower-case form of each upper-case ASCII letter
LowerOf == [c \in {UpperChars[i] : i \in 1..26} |->
               LowerChars[CHOOSE i \in 1..26 : UpperChars[i] = c]]

LowerChar(c) == IF c \in DOMAIN LowerOf THEN LowerOf[c] ELSE c

RECURSIVE ToLowerCase(_)
\* String.prototype.toLowerCase: every character mapped, order and length
\* kept (evaluated by halves to keep the recursion shallow)
ToLowerCase(s) ==
    IF Len(s) = 0 THEN ""
    ELSE IF Len(s) = 1 THEN LowerChar(s)
    ELSE LET h == Len(s) \div 2
         IN  ToLowerCase(SubSeq(s, 1, h)) \o ToLowerCase(SubSeq(s, h + 1, Len(s)))

\* s.startsWith(sub, i - 1): sub occurs in s at the 1-based position i
OccursAt(s, sub, i) ==
    /\ i >= 1
    /\ i + Len(sub) - 1 <= Len(s)
    /\ SubSeq(s, i, i + Len(sub) - 1) = sub

\* String.prototype.includes
Includes(s, sub) == \E i \in 1..(Len(s) + 1) : OccursAt(s, sub, i)

Min(a, b) == IF a <= b THEN a ELSE b

\* the characters \w matches
WordChars == {"a", "b", "c", "d", "e", "f", "g", "h", "i", "j", "k", "l", "m",
              "n", "o", "p", "q", "r", "s", "t", "u", "v", "w", "x", "y", "z",
              "A", "B", "C", "D", "E", "F", "G", "H", "I", "J", "K", "L", "M",
              "N", "O", "P", "Q", "R", "S", "T", "U", "V", "W", "X", "Y", "Z",
              "0", "1", "2", "3", "4", "5", "6", "7", "8", "9", "_"}

LineTerminators == {"\n", "\r"}

IsWordChar(s, i) == i >= 1 /\ i <= Len(s) /\ CharAt(s, i) \in WordChars

(***************************************************************************)
(* Signal 1: keywords.                                                     *)
(***************************************************************************)
\* variant: a keyword counts only as a whole word of the prompt
KeywordMatches_WholeWord(normalizedPrompt, keywords) ==
    SelectSeq(keywords,
              LAMBDA keyword :
                  \E i \in 1..(Len(normalizedPrompt) + 1) :
                      /\ OccursAt(normalizedPrompt, keyword, i)
                      /\ ~IsWordChar(normalizedPrompt, i - 1)
                      /\ ~IsWordChar(normalizedPrompt, i + Len(keyword)))

\* variant: an empty keyword is skipped
KeywordMatches_SkipEmpty(normalizedPrompt, keywords) ==
    SelectSeq(keywords,
              LAMBDA keyword :
                  keyword # "" /\ Includes(normalizedPrompt, keyword))

\* the keywords pushed by the loop over the keyword list, in list order
KeywordMatches(normalizedPrompt, keywords) ==
    SelectSeq(keywords, LAMBDA keyword : Includes(normalizedPrompt, keyword))

\* variant: the bonus is added without the Math.min(100, ...) cap
calculateKeywordScore_NoCap(p, keywords) ==
    LET matches == KeywordMatches(ToLowerCase(p), keywords)
    IN  IF Len(matches) = 0
        THEN [score |-> 0, matches |-> <<>>]
        ELSE [score |-> 70 + (Len(matches) - 1) * 5, matches |-> matches]

\* variant: one matched keyword is worth 50, below the threshold of 70
calculateKeywordScore_BaseFifty(p, keywords) ==
    LET matches == KeywordMatches(ToLowerCase(p), keywords)
    IN  IF Len(matches) = 0
        THEN [score |-> 0, matches |-> <<>>]
        ELSE [score |-> Min(100, 50 + (Len(matches) - 1) * 5),
              matches |-> matches]

calculateKeywordScore(p, keywords) ==
    LET normalizedPrompt == ToLowerCase(p)
        matches == KeywordMatches(normalizedPrompt, keywords)
        baseScore == 70
        bonusPerMatch == 5
    IN  IF Len(matches) = 0
        THEN [score |-> 0, matches |-> <<>>]
        ELSE [score |-> Min(100, baseScore + (Len(matches) - 1) * bonusPerMatch),
              matches |-> matches]

(***************************************************************************)
(* minimatch(file, pattern, {dot}) of the minimatch package, for patterns   *)
(* made of literal characters, "?", "*" and whole-segment "**" (no braces, *)
(* classes, negation or comments).  Paths and patterns are split at "/"    *)
(* and matched segment by segment; matching is case-sensitive.             *)
(***************************************************************************)
RECURSIVE SplitPath(_)
SplitPath(s) ==
    IF \E i \in 1..Len(s) : CharAt(s, i) = "/"
    THEN LET i == CHOOSE j \in 1..Len(s) :
                     /\ CharAt(s, j) = "/"
                     /\ \A k \in 1..(j - 1) : CharAt(s, k) # "/"
         IN  <<SubSeq(s, 1, i - 1)>> \o SplitPath(SubSeq(s, i + 1, Len(s)))
    ELSE <<s>>

RECURSIVE GlobChars(_, _)
\* one path segment against one pattern segment: "*" is any run of
\* characters, "?" is one character, anything else is itself
GlobChars(p, s) ==
    IF Len(p) = 0 THEN Len(s) = 0
    ELSE LET c == CharAt(p, 1)
             restP == SubSeq(p, 2, Len(p))
         IN  IF c = "*"
             THEN \/ GlobChars(restP, s)
                  \/ Len(s) > 0 /\ GlobChars(p, SubSeq(s, 2, Len(s)))
             ELSE /\ Len(s) > 0
                  /\ c = "?" \/ c = CharAt(s, 1)
                  /\ GlobChars(restP, SubSeq(s, 2, Len(s)))

HasMagic(p) == \E i \in 1..Len(p) : CharAt(p, i) \in {"*", "?"}

IsDotSegment(s) == Len(s) > 0 /\ CharAt(s, 1) = "."

\* a segment starting with "." is matched by a wildcard only under dot:true;
\* "." and ".." are never matched by a wildcard
GlobSegment(p, s, dot) ==
    IF HasMagic(p)
    THEN /\ Len(s) > 0
         /\ s \notin {".", ".."}
         /\ IsDotSegment(s) => (dot \/ CharAt(p, 1) = ".")
         /\ GlobChars(p, s)
    ELSE p = s

RECURSIVE MatchOne(_, _, _)
\* segments of the file against segments of the pattern: a pattern used up
\* needs the file used up (or one empty segment left by a trailing "/"); a
\* file used up first is no match; "**" as the last segment swallows what is
\* left, elsewhere it skips zero or more segments
MatchOne(file, pattern, dot) ==
    IF Len(pattern) = 0 THEN Len(file) = 0 \/ file = <<"">>
    ELSE IF Len(file) = 0 THEN FALSE
    ELSE IF Head(pattern) = "**"
    THEN LET swallow(f) == f \notin {".", ".."} /\ (IsDotSegment(f) => dot)
         IN  IF Len(pattern) = 1
             THEN \A i \in 1..Len(file) : swallow(file[i])
             ELSE \/ MatchOne(file, Tail(pattern), dot)
                  \/ /\ swallow(Head(file))
                     /\ MatchOne(Tail(file), pattern, dot)
    ELSE /\ GlobSegment(Head(pattern), Head(file), dot)
         /\ MatchOne(Tail(file), Tail(pattern), dot)

minimatch(file, pattern, dot) ==
    IF pattern = "" THEN file = ""
    ELSE MatchOne(SplitPath(file), SplitPath(pattern), dot)

(***************************************************************************)
(* Signal 2: file patterns.                                                *)
(***************************************************************************)
RECURSIVE FileMatches_NoBreak(_, _)
\* variant: the inner loop has no break, a file is pushed once for every
\* pattern it matches
FileMatches_NoBreak(openFiles, filePatterns) ==
    IF openFiles = <<>>
    THEN <<>>
    ELSE LET file == Head(openFiles)
             hits == {i \in 1..Len(filePatterns) :
                         minimatch(file, filePatterns[i], TRUE)}
         IN  [k \in 1..Cardinality(hits) |-> file]
             \o FileMatches_NoBreak(Tail(openFiles), filePatterns)

\* the files pushed by the nested loops: a file is pushed at its first
\* matching pattern and the inner loop breaks, so it is pushed at most once
FileMatches(openFiles, filePatterns) ==
    SelectSeq(openFiles,
              LAMBDA file : \E i \in 1..Len(filePatterns) :
                                minimatch(file, filePatterns[i], TRUE))

\* variant: the score the function's doc comment describes,
\* (matchedFiles / totalPatterns) * 100
calculateFileScore_MatchRatio(openFiles, filePatterns) ==
    IF Len(filePatterns) = 0 \/ Len(openFiles) = 0
    THEN [score |-> 0, matches |-> <<>>]
    ELSE LET matches == FileMatches(openFiles, filePatterns)
         IN  IF Len(matches) = 0
             THEN [score |-> 0, matches |-> <<>>]
             ELSE [score |-> Min(100, (Len(matches) * 100) \div Len(filePatterns)),
                   matches |-> matches]

\* variant: a skill without file patterns is taken to match every open file
calculateFileScore_NoPatternsMatchAll(openFiles, filePatterns) ==
    IF Len(openFiles) = 0
    THEN [score |-> 0, matches |-> <<>>]
    ELSE LET matches == IF Len(filePatterns) = 0
                        THEN openFiles
                        ELSE FileMatches(openFiles, filePatterns)
             baseScore == 80
             bonusPerMatch == 10
         IN  IF Len(matches) = 0
             THEN [score |-> 0, matches |-> <<>>]
             ELSE [score |-> Min(100, baseScore + (Len(matches) - 1) * bonusPerMatch),
                   matches |-> matches]

calculateFileScore(openFiles, filePatterns) ==
    IF Len(filePatterns) = 0 \/ Len(openFiles) = 0
    THEN [score |-> 0, matches |-> <<>>]
    ELSE LET matches == FileMatches(openFiles, filePatterns)
             baseScore == 80
             bonusPerMatch == 10
         IN  IF Len(matches) = 0
             THEN [score |-> 0, matches |-> <<>>]
             ELSE [score |-> Min(100, baseScore + (Len(matches) - 1) * bonusPerMatch),
                   matches |-> matches]

(***************************************************************************)
(* Regular expressions of the shape /\b(a1|a2|...)/i, where every          *)
(* alternative is a list of literals joined by ".*" (<<"event", "handler">>*)
(* is event.*handler).                                                     *)
(***************************************************************************)
\* \b holds just before position i
WordBoundary(s, i) == IsWordChar(s, i - 1) # IsWordChar(s, i)

RECURSIVE MatchParts(_, _, _)
\* the alternative matches s starting at position i; "." is any character
\* but a line terminator
MatchParts(parts, s, i) ==
    /\ OccursAt(s, Head(parts), i)
    /\ \/ Len(parts) = 1
       \/ \E j \in (i + Len(Head(parts)))..Len(s) :
              /\ \A k \in (i + Len(Head(parts)))..(j - 1) :
                     CharAt(s, k) \notin LineTerminators
              /\ MatchParts(Tail(parts), s, j)

\* RegExp.prototype.test for a pattern without the g flag (the search starts
\* at the beginning of the subject and lastIndex is neither read nor written)
\* under the i flag; every literal of the patterns is lower-case, so the
\* subject is folded to lower case and compared exactly
RegExpTest(alternatives, s) ==
    \E folded \in {ToLowerCase(s)} :
        \E i \in 1..Len(folded) :
            /\ WordBoundary(folded, i)
            /\ \E a \in alternatives : MatchParts(a, folded, i)

Max(S) == CHOOSE x \in S : \A y \in S : y <= x

RECURSIVE MatchEnd(_, _, _)
\* the index of the last character of the match of the alternative at
\* position i: ".*" is greedy
MatchEnd(parts, s, i) ==
    IF Len(parts) = 1
    THEN i + Len(Head(parts)) - 1
    ELSE Max({MatchEnd(Tail(parts), s, j) :
                 j \in {j \in (i + Len(Head(parts)))..Len(s) :
                           /\ \A k \in (i + Len(Head(parts)))..(j - 1) :
                                  CharAt(s, k) \notin LineTerminators
                           /\ MatchParts(Tail(parts), s, j)}})

\* RegExp.prototype.test for a pattern with the g flag: the leftmost match
\* that starts at or after offset from (an offset counts the characters
\* before a position), and the offset just after it, taken for the
\* alternative that reaches furthest
RegExpSearch(alternatives, s, from) ==
    LET folded == ToLowerCase(s)
        starts == {i \in (from + 1)..Len(folded) :
                      /\ WordBoundary(folded, i)
                      /\ \E a \in alternatives : MatchParts(a, folded, i)}
    IN  IF starts = {}
        THEN [found |-> FALSE, end |-> 0]
        ELSE LET i == CHOOSE x \in starts : \A y \in starts : x <= y
             IN  [found |-> TRUE,
                  end |-> Max({MatchEnd(a, folded, i) :
                                  a \in {a \in alternatives :
                                            MatchParts(a, folded, i)}})]

\* variant: the patterns are written with the g flag
RegExpFlags_Global == "gi"

\* the flags every literal of SEMANTIC_PATTERNS is written with
RegExpFlags == "i"

IsGlobal == Includes(RegExpFlags, "g")

SEMANTIC_PATTERNS ==
    [n \in {"webhook/callback", "payment/stripe", "auth/session",
            "database/schema", "validation/security", "realtime/convex",
            "forms/input", "api/http"} |->
        CASE n = "webhook/callback" ->
                {<<"webhook">>, <<"callback">>, <<"event", "handler">>,
                 <<"api", "endpoint">>, <<"http", "action">>,
                 <<"external", "api">>, <<"payload">>, <<"signature", "verif">>}
          [] n = "payment/stripe" ->
                {<<"stripe">>, <<"payment">>, <<"checkout">>, <<"charge">>,
                 <<"subscription">>, <<"invoice">>, <<"billing">>,
                 <<"transaction">>, <<"card">>}
          [] n = "auth/session" ->
                {<<"auth">>, <<"login">>, <<"signup">>, <<"session">>, <<"jwt">>,
                 <<"oauth">>, <<"token">>, <<"credentials">>, <<"password">>,
                 <<"user", "management">>}
          [] n = "database/schema" ->
                {<<"schema">>, <<"table">>, <<"query">>, <<"mutation">>,
                 <<"database">>, <<"data", "model">>, <<"field">>, <<"index">>,
                 <<"migration">>}
          [] n = "validation/security" ->
                {<<"validat">>, <<"sanitiz">>, <<"xss">>, <<"sql", "inject">>,
                 <<"csrf">>, <<"rate", "limit">>, <<"audit">>, <<"pii">>,
                 <<"encrypt">>}
          [] n = "realtime/convex" ->
                {<<"realtime">>, <<"live", "query">>, <<"subscri">>,
                 <<"reactive">>, <<"websocket">>, <<"sse">>, <<"push", "notif">>}
          [] n = "forms/input" ->
                {<<"form">>, <<"input">>, <<"textarea">>, <<"checkbox">>,
                 <<"radio">>, <<"select">>, <<"validation">>, <<"submit">>,
                 <<"field">>}
          [] n = "api/http" ->
                {<<"api">>, <<"rest">>, <<"endpoint">>, <<"route">>,
                 <<"request">>, <<"response">>, <<"fetch">>, <<"axios">>,
                 <<"http", "client">>}]

(***************************************************************************)
(* Signal 3: semantic content.                                             *)
(***************************************************************************)
\* own properties of the skillPatterns object literal
skillPatterns ==
    [n \in {"convex-patterns", "security-patterns", "react-patterns",
            "typescript-patterns"} |->
        CASE n = "convex-patterns" ->
                <<"webhook/callback", "database/schema", "realtime/convex",
                  "api/http">>
          [] n = "security-patterns" ->
                <<"validation/security", "auth/session", "payment/stripe">>
          [] n = "react-patterns" -> <<"forms/input", "realtime/convex">>
          [] n = "typescript-patterns" ->
                <<"database/schema", "validation/security">>]

\* properties every object literal inherits from Object.prototype: functions,
\* and for __proto__ the prototype object itself; none of them is iterable
ObjectPrototypeKeys ==
    {"constructor", "toString", "toLocaleString", "valueOf", "hasOwnProperty",
     "isPrototypeOf", "propertyIsEnumerable", "__proto__", "__defineGetter__",
     "__defineSetter__", "__lookupGetter__", "__lookupSetter__"}

\* skillPatterns[skillName]: an own property, else an inherited one, else
\* undefined
skillPatternsGet(skillName) ==
    IF skillName \in DOMAIN skillPatterns
    THEN Some([iterable |-> TRUE, items |-> skillPatterns[skillName]])
    ELSE IF skillName \in ObjectPrototypeKeys
    THEN Some([iterable |-> FALSE, items |-> <<>>])
    ELSE Undefined

\* pattern?.test(normalizedPrompt) on the RegExp object of a category: with
\* the g flag the search starts at the object's lastIndex
PatternTest(patternName, normalizedPrompt) ==
    /\ patternName \in DOMAIN SEMANTIC_PATTERNS
    /\ IF IsGlobal
       THEN RegExpSearch(SEMANTIC_PATTERNS[patternName], normalizedPrompt,
                         lastIndex[patternName]).found
       ELSE RegExpTest(SEMANTIC_PATTERNS[patternName], normalizedPrompt)

\* the lastIndex of that RegExp object after the test: untouched without the
\* g flag; with it, the end of the match, or 0 after a failed search
PatternLastIndex(patternName, normalizedPrompt) ==
    IF ~IsGlobal
    THEN lastIndex[patternName]
    ELSE LET m == RegExpSearch(SEMANTIC_PATTERNS[patternName], normalizedPrompt,
                               lastIndex[patternName])
         IN  IF m.found THEN m.end ELSE 0

\* the category names pushed by the loop over relevantPatterns, in list order
ContentMatches(normalizedPrompt, relevantPatterns) ==
    SelectSeq(relevantPatterns,
              LAMBDA patternName : PatternTest(patternName, normalizedPrompt))

\* threw = TRUE: for...of over a value that is not iterable raises TypeError
calculateContentScore(p, skillName) ==
    LET normalizedPrompt == ToLowerCase(p)
        relevantPatterns ==
            NullishCoalesce(skillPatternsGet(skillName),
                            [iterable |-> TRUE, items |-> <<>>])
    IN  IF ~relevantPatterns.iterable
        THEN [threw |-> TRUE, score |-> 0, matches |-> <<>>]
        ELSE LET matches == ContentMatches(normalizedPrompt, relevantPatterns.items)
                 baseScore == 70
                 bonusPerMatch == 10
             IN  IF Len(matches) = 0
                 THEN [threw |-> FALSE, score |-> 0, matches |-> <<>>]
                 ELSE [threw |-> FALSE,
                       score |-> Min(100, baseScore
                                          + (Len(matches) - 1) * bonusPerMatch),
                       matches |-> matches]

(***************************************************************************)
(* Combination.                                                            *)
(***************************************************************************)
\* WEIGHTS in tenths: keywords 0.4, files 0.3, content 0.3
WEIGHTS == [keywords |-> 4, files |-> 3, content |-> 3]

RECURSIVE SumSeq(_)
\* xs.reduce((sum, x) => sum + x, 0)
SumSeq(xs) == IF Len(xs) = 0 THEN 0 ELSE Head(xs) + SumSeq(Tail(xs))

\* Math.round(num / den) for num >= 0, den > 0: halves round up
MathRound(num, den) == (2 * num + den) \div (2 * den)

\* variant: the raw weights are used, without dividing by totalWeight
WeightedAverage_NoRenormalize(activeWeights, activeScores) ==
    LET weighted == [i \in 1..Len(activeScores) |->
                        activeScores[i] * activeWeights[i]]
    IN  MathRound(SumSeq(weighted), 10)

\* activeScores.reduce((sum, score, i) => sum + score * normalizedWeights[i])
\* with normalizedWeights[i] = activeWeights[i] / totalWeight, then Math.round
WeightedAverage(activeWeights, activeScores) ==
    LET totalWeight == SumSeq(activeWeights)
        weighted == [i \in 1..Len(activeScores) |->
                        activeScores[i] * activeWeights[i]]
    IN  MathRound(SumSeq(weighted), totalWeight)

EmptyDetails ==
    [keywordMatches |-> <<>>, fileMatches |-> <<>>, contentMatches |-> <<>>,
     keywordScore |-> 0, fileScore |-> 0, contentScore |-> 0]

\* variant: no active signal is reported as an error
NoSignalResult_Throws == [status |-> "threw", error |-> "Error"]

\* the early return taken when activeWeights is empty
NoSignalResult ==
    [status |-> "returned", confidence |-> 0, details |-> EmptyDetails]

\* context?.openFiles ?? []
OpenFilesOf(ctx) ==
    IF ctx.defined THEN NullishCoalesce(ctx.value.openFiles, <<>>) ELSE <<>>

\* variant: every signal is pushed, whatever its score
ActiveSignals_IncludeZero(keywordScore, fileScore, contentScore) ==
    [weights |-> <<WEIGHTS.keywords, WEIGHTS.files, WEIGHTS.content>>,
     scores |-> <<keywordScore, fileScore, contentScore>>]

\* activeWeights and activeScores after the three "score > 0" pushes
ActiveSignals(keywordScore, fileScore, contentScore) ==
    [weights |->
        (IF keywordScore > 0 THEN <<WEIGHTS.keywords>> ELSE <<>>)
        \o (IF fileScore > 0 THEN <<WEIGHTS.files>> ELSE <<>>)
        \o (IF contentScore > 0 THEN <<WEIGHTS.content>> ELSE <<>>),
     scores |->
        (IF keywordScore > 0 THEN <<keywordScore>> ELSE <<>>)
        \o (IF fileScore > 0 THEN <<fileScore>> ELSE <<>>)
        \o (IF contentScore > 0 THEN <<contentScore>> ELSE <<>>)]

\* variant: the file score that enters the average is left out of the details
calculateConfidence_FileScoreNotReported(p, sk, ctx) ==
    LET keywordResult == calculateKeywordScore(p, sk.keywords)
        fileResult == calculateFileScore(OpenFilesOf(ctx), sk.filePatterns)
        contentResult == calculateContentScore(p, sk.name)
        active == ActiveSignals(keywordResult.score, fileResult.score,
                                contentResult.score)
    IN  IF contentResult.threw
        THEN [status |-> "threw", error |-> "TypeError"]
        ELSE IF Len(active.weights) = 0
        THEN NoSignalResult
        ELSE [status |-> "returned",
              confidence |-> WeightedAverage(active.weights, active.scores),
              details |->
                  [keywordMatches |-> keywordResult.matches,
                   fileMatches |-> fileResult.matches,
                   contentMatches |-> contentResult.matches,
                   keywordScore |-> keywordResult.score,
                   fileScore |-> 0,
                   contentScore |-> contentResult.score]]

calculateConfidence(p, sk, ctx) ==
    LET keywordResult == calculateKeywordScore(p, sk.keywords)
        fileResult == calculateFileScore(OpenFilesOf(ctx), sk.filePatterns)
        contentResult == calculateContentScore(p, sk.name)
        active == ActiveSignals(keywordResult.score, fileResult.score,
                                contentResult.score)
    IN  IF contentResult.threw
        THEN [status |-> "threw", error |-> "TypeError"]
        ELSE IF Len(active.weights) = 0
        THEN NoSignalResult
        ELSE [status |-> "returned",
              confidence |-> WeightedAverage(active.weights, active.scores),
              details |->
                  [keywordMatches |-> keywordResult.matches,
                   fileMatches |-> fileResult.matches,
                   contentMatches |-> contentResult.matches,
                   keywordScore |-> keywordResult.score,
                   fileScore |-> fileResult.score,
                   contentScore |-> contentResult.score]]

(***************************************************************************)
(* Inputs.                                                                 *)
(***************************************************************************)
\* prompts: empty; upper case only; "api" inside a word and a keyword
\* written with a capital; many keywords and categories at once; all four
\* categories of convex-patterns; "event" and "handler" on separate lines
Prompts ==
    {"",
     "API",
     "Record rapid event handler",
     "webhook field sse jwt validation utility type guard enum tuple infer",
     "query the API: webhook, sse",
     "event\nhandler"}

SeqsUpTo(S, n) == UNION {[1..m -> S] : m \in 0..n}

SkillNames ==
    {"convex-patterns", "security-patterns", "react-patterns",
     "typescript-patterns", "bun-patterns", "constructor"}

\* the keyword list of skills/typescript-patterns/SKILL.md
TypescriptKeywords ==
    <<"typescript", "type", "interface", "generic", "utility type",
      "discriminated union", "as const", "readonly", "validation", "narrowing",
      "guard", "type guard", "assert", "enum", "tuple", "Record", "Partial",
      "Pick", "Omit", "infer", "extends">>

KeywordLists ==
    {<<>>, <<"api">>, <<"Record">>, <<"api", "api">>, <<"api", "Record">>,
     <<"">>, <<"jwt", "">>, TypescriptKeywords}

FilePatternLists == {<<>>, <<"convex/**/*.ts">>, <<"**/*.ts", "*.ts">>}

FilePool == {"convex/orders.ts", ".env.ts"}

Skills == [name : SkillNames, keywords : KeywordLists,
           filePatterns : FilePatternLists]

Contexts ==
    {Undefined, Some([openFiles |-> Undefined])}
    \cup {Some([openFiles |-> Some(open)]) :
              open \in SeqsUpTo(FilePool, MaxOpenFiles)}

NoResult == [status |-> "none"]

NoError == [name |-> "", message |-> ""]

(***************************************************************************)
(* Paths (node:path, POSIX) and the filesystem (node:fs) as validatePath   *)
(* of src/src/services/security.ts uses them.  A path is a string; the     *)
(* filesystem says for every absolute path of a fixed set whether it names *)
(* a directory, a file, a symbolic link (with its target) or nothing.      *)
(***************************************************************************)
\* path.sep
sep == "/"

StartsWith(s, prefix) ==
    /\ Len(prefix) <= Len(s)
    /\ SubSeq(s, 1, Len(prefix)) = prefix

EndsWith(s, suffix) ==
    /\ Len(suffix) <= Len(s)
    /\ SubSeq(s, Len(s) - Len(suffix) + 1, Len(s)) = suffix

RECURSIVE Join(_)
\* segments joined by "/"
Join(segs) ==
    IF Len(segs) = 0 THEN ""
    ELSE IF Len(segs) = 1 THEN Head(segs)
    ELSE Head(segs) \o sep \o Join(Tail(segs))

RECURSIVE NormalizeSegments(_, _, _)
\* normalizeString of node:path: "" and "." segments are dropped, ".."
\* removes the segment before it, and where there is none to remove it is
\* kept (allowAboveRoot) or dropped
NormalizeSegments(rest, allowAboveRoot, res) ==
    IF Len(rest) = 0 THEN res
    ELSE LET seg == Head(rest)
         IN  IF seg = "" \/ seg = "."
             THEN NormalizeSegments(Tail(rest), allowAboveRoot, res)
             ELSE IF seg = ".."
             THEN IF Len(res) > 0 /\ res[Len(res)] # ".."
                  THEN NormalizeSegments(Tail(rest), allowAboveRoot,
                                         SubSeq(res, 1, Len(res) - 1))
                  ELSE IF allowAboveRoot
                  THEN NormalizeSegments(Tail(rest), allowAboveRoot,
                                         Append(res, ".."))
                  ELSE NormalizeSegments(Tail(rest), allowAboveRoot, res)
             ELSE NormalizeSegments(Tail(rest), allowAboveRoot,
                                    Append(res, seg))

NormalizeString(path, allowAboveRoot) ==
    Join(NormalizeSegments(SplitPath(path), allowAboveRoot, <<>>))

IsAbsolute(path) == StartsWith(path, sep)

\* path.normalize
normalize(path) ==
    IF Len(path) = 0 THEN "."
    ELSE LET trailingSeparator == EndsWith(path, sep)
             body == NormalizeString(path, ~IsAbsolute(path))
         IN  IF Len(body) = 0
             THEN IF IsAbsolute(path) THEN sep
                  ELSE IF trailingSeparator THEN "./" ELSE "."
             ELSE (IF IsAbsolute(path) THEN sep ELSE "")
                  \o body \o (IF trailingSeparator THEN sep ELSE "")

\* process.cwd()
Cwd == "/repo/.claude/sub"

\* path.resolve(path) and path.resolve(from, path): the rightmost absolute
\* argument and what follows it, else the working directory and the
\* arguments, normalized and without a trailing separator
resolve2(from, path) ==
    LET joined == IF IsAbsolute(path) THEN path
                  ELSE IF IsAbsolute(from) THEN from \o sep \o path
                  ELSE Cwd \o sep \o from \o sep \o path
    IN  sep \o NormalizeString(joined, FALSE)

resolve(path) == resolve2("", path)

\* what a path names
Nothing == [type |-> "none"]

Directory == [type |-> "dir"]

File == [type |-> "file"]

Symlink(target) == [type |-> "link", target |-> target]

Lookup(files, path) == IF path \in DOMAIN files THEN files[path] ELSE Nothing

\* symbolic links followed while one path is resolved, before ELOOP
MAXSYMLINKS == 4

RECURSIVE RealPath(_, _, _, _)
\* realpath(3): the segments still to resolve are walked from the directory
\* resolved so far; a link restarts the walk at its (absolute) target
RealPath(files, resolved, rest, links) ==
    IF Len(rest) = 0
    THEN [ok |-> TRUE, path |-> sep \o Join(resolved)]
    ELSE LET here == sep \o Join(Append(resolved, Head(rest)))
             entry == Lookup(files, here)
         IN  CASE entry.type = "none" -> [ok |-> FALSE, code |-> "ENOENT"]
               [] entry.type = "link" ->
                      IF links = 0
                      THEN [ok |-> FALSE, code |-> "ELOOP"]
                      ELSE RealPath(files, <<>>,
                                    NormalizeSegments(SplitPath(entry.target),
                                                      FALSE, <<>>)
                                    \o Tail(rest),
                                    links - 1)
               [] entry.type = "file" ->
                      IF Len(rest) > 1
                      THEN [ok |-> FALSE, code |-> "ENOTDIR"]
                      ELSE RealPath(files, Append(resolved, Head(rest)),
                                    Tail(rest), links)
               [] entry.type = "dir" ->
                      RealPath(files, Append(resolved, Head(rest)),
                               Tail(rest), links)

\* fs.realpathSync(path) for an absolute path: the canonical path, or the
\* error it throws
realpathSync(files, path) ==
    RealPath(files, <<>>, NormalizeSegments(SplitPath(path), FALSE, <<>>),
             MAXSYMLINKS)

\* fs.existsSync(path): stat follows links; any error is "false"
existsSync(files, path) == realpathSync(files, path).ok

\* new SecurityError(message, attemptedPath, reason) in a failed Result
Fail(message, attemptedPath, reason) ==
    [ok |-> FALSE,
     error |-> [name |-> "SecurityError", message |-> message,
                attemptedPath |-> attemptedPath, reason |-> reason]]

Ok(value) == [ok |-> TRUE, value |-> value]

\* variant: the prefix is the directory itself
WithSeparator_Bare(dir) == dir

\* allowedPrefix and projectPrefix: the directory with one trailing separator
WithSeparator(dir) == IF EndsWith(dir, sep) THEN dir ELSE dir \o sep

\* variant: the allowed directory itself passes the containment check
ContainmentStep_AllowsRoot(files, target, allowed) ==
    LET resolvedAllowed == realpathSync(files, allowed)
    IN  IF ~resolvedAllowed.ok
        THEN [passed |-> FALSE, resolvedAllowedDir |-> "",
              result |-> Fail("Allowed directory does not exist: " \o allowed,
                              allowed, "allowed_dir_not_found")]
        ELSE LET normalizedPath == normalize(target)
                 absolutePath == resolve(normalizedPath)
                 allowedPrefix == WithSeparator(resolvedAllowed.path)
             IN  IF /\ absolutePath # resolvedAllowed.path
                    /\ ~StartsWith(absolutePath, allowedPrefix)
                 THEN [passed |-> FALSE,
                       resolvedAllowedDir |-> resolvedAllowed.path,
                       result |->
                           Fail("Access denied: Path is outside allowed directory (.claude/)",
                                target, "outside_allowed_directory")]
                 ELSE [passed |-> TRUE,
                       resolvedAllowedDir |-> resolvedAllowed.path,
                       result |-> [ok |-> FALSE]]

\* steps 1 to 3 of validatePath: the allowed directory is resolved, the
\* target normalized and made absolute, and the unresolved absolute path
\* must lie below the resolved allowed directory; passed = TRUE when the
\* function goes on to step 4
ContainmentStep(files, target, allowed) ==
    LET resolvedAllowed == realpathSync(files, allowed)
    IN  IF ~resolvedAllowed.ok
        THEN [passed |-> FALSE, resolvedAllowedDir |-> "",
              result |-> Fail("Allowed directory does not exist: " \o allowed,
                              allowed, "allowed_dir_not_found")]
        ELSE LET normalizedPath == normalize(target)
                 absolutePath == resolve(normalizedPath)
                 allowedPrefix == WithSeparator(resolvedAllowed.path)
             IN  IF ~StartsWith(absolutePath, allowedPrefix)
                 THEN [passed |-> FALSE,
                       resolvedAllowedDir |-> resolvedAllowed.path,
                       result |->
                           Fail("Access denied: Path is outside allowed directory (.claude/)",
                                target, "outside_allowed_directory")]
                 ELSE [passed |-> TRUE,
                       resolvedAllowedDir |-> resolvedAllowed.path,
                       result |-> [ok |-> FALSE]]

\* step 4
ExistenceStep(files, target) ==
    IF ~existsSync(files, resolve(normalize(target)))
    THEN [passed |-> FALSE,
          result |-> Fail("Path does not exist: " \o target, target,
                          "path_not_found")]
    ELSE [passed |-> TRUE, result |-> [ok |-> FALSE]]

\* variant: step 6 tests the path as it was before the links were resolved
ContainedPath_Unresolved(absolutePath, resolvedPath) == absolutePath

\* the path step 6 tests against the project prefix
ContainedPath(absolutePath, resolvedPath) == resolvedPath

\* variant: only a whole ".." segment counts
HasTraversal_SegmentOnly(normalizedPath) ==
    \E i \in 1..Len(SplitPath(normalizedPath)) :
        SplitPath(normalizedPath)[i] = ".."

\* step 7: String.prototype.includes on the normalized path
HasTraversal(normalizedPath) == Includes(normalizedPath, "..")

\* variant: the ".." check is made before the project-root check
ResolutionStep_TraversalFirst(files, target, resolvedAllowed) ==
    LET normalizedPath == normalize(target)
        absolutePath == resolve(normalizedPath)
        resolvedPath == realpathSync(files, absolutePath)
        projectRoot == resolve2(resolvedAllowed, "..")
        projectPrefix == WithSeparator(projectRoot)
    IN  IF ~resolvedPath.ok
        THEN Fail("Cannot resolve path: " \o target, target,
                  "path_resolution_failed")
        ELSE IF HasTraversal(normalizedPath)
        THEN Fail("Path traversal detected: " \o target, target,
                  "path_traversal_detected")
        ELSE IF ~StartsWith(ContainedPath(absolutePath, resolvedPath.path),
                            projectPrefix)
        THEN Fail("Access denied: Symlink points outside project directory",
                  target, "symlink_outside_project")
        ELSE Ok(resolvedPath.path)

\* variant: the error of realpathSync(absolutePath) is not caught
ResolutionStep_Uncaught(files, target, resolvedAllowed) ==
    LET normalizedPath == normalize(target)
        absolutePath == resolve(normalizedPath)
        resolvedPath == realpathSync(files, absolutePath)
        projectRoot == resolve2(resolvedAllowed, "..")
        projectPrefix == WithSeparator(projectRoot)
    IN  IF ~resolvedPath.ok
        THEN [status |-> "threw", error |-> resolvedPath.code]
        ELSE IF ~StartsWith(ContainedPath(absolutePath, resolvedPath.path),
                            projectPrefix)
        THEN Fail("Access denied: Symlink points outside project directory",
                  target, "symlink_outside_project")
        ELSE IF HasTraversal(normalizedPath)
        THEN Fail("Path traversal detected: " \o target, target,
                  "path_traversal_detected")
        ELSE Ok(resolvedPath.path)

\* variant: the value of an ok result is the targetPath argument as given
ResolutionStep_ReturnsTarget(files, target, resolvedAllowed) ==
    LET normalizedPath == normalize(target)
        absolutePath == resolve(normalizedPath)
        resolvedPath == realpathSync(files, absolutePath)
        projectRoot == resolve2(resolvedAllowed, "..")
        projectPrefix == WithSeparator(projectRoot)
    IN  IF ~resolvedPath.ok
        THEN Fail("Cannot resolve path: " \o target, target,
                  "path_resolution_failed")
        ELSE IF ~StartsWith(ContainedPath(absolutePath, resolvedPath.path),
                            projectPrefix)
        THEN Fail("Access denied: Symlink points outside project directory",
                  target, "symlink_outside_project")
        ELSE IF HasTraversal(normalizedPath)
        THEN Fail("Path traversal detected: " \o target, target,
                  "path_traversal_detected")
        ELSE Ok(target)

\* steps 5 to 7 and the return
ResolutionStep(files, target, resolvedAllowed) ==
    LET normalizedPath == normalize(target)
        absolutePath == resolve(normalizedPath)
        resolvedPath == realpathSync(files, absolutePath)
        projectRoot == resolve2(resolvedAllowed, "..")
        projectPrefix == WithSeparator(projectRoot)
    IN  IF ~resolvedPath.ok
        THEN Fail("Cannot resolve path: " \o target, target,
                  "path_resolution_failed")
        ELSE IF ~StartsWith(ContainedPath(absolutePath, resolvedPath.path),
                            projectPrefix)
        THEN Fail("Access denied: Symlink points outside project directory",
                  target, "symlink_outside_project")
        ELSE IF HasTraversal(normalizedPath)
        THEN Fail("Path traversal detected: " \o target, target,
                  "path_traversal_detected")
        ELSE Ok(resolvedPath.path)

(***************************************************************************)
\* fs.statSync(path): links are followed; the type of what the path names,
\* or the error it throws
statSync(files, path) ==
    IF path = ""
    THEN [ok |-> FALSE, code |-> "ENOENT"]
    ELSE LET resolved == realpathSync(files, resolve(path))
         IN  IF ~resolved.ok
             THEN resolved
             ELSE [ok |-> TRUE,
                   type |-> IF resolved.path = sep
                            THEN "dir"
                            ELSE Lookup(files, resolved.path).type]

\* { ok: true, value: undefined }
OkVoid == [ok |-> TRUE, value |-> Undefined]

validateIsDirectory(files, path) ==
    LET stats == statSync(files, path)
    IN  IF ~stats.ok
        THEN Fail("Cannot stat path: " \o path, path, "stat_failed")
        ELSE IF stats.type # "dir"
        THEN Fail("Path is not a directory: " \o path, path, "not_a_directory")
        ELSE OkVoid

\* variant: the error of statSync is not caught
validateIsFile_Uncaught(files, path) ==
    LET stats == statSync(files, path)
    IN  IF ~stats.ok
        THEN [status |-> "threw", error |-> stats.code]
        ELSE IF stats.type # "file"
        THEN Fail("Path is not a file: " \o path, path, "not_a_file")
        ELSE OkVoid

validateIsFile(files, path) ==
    LET stats == statSync(files, path)
    IN  IF ~stats.ok
        THEN Fail("Cannot stat path: " \o path, path, "stat_failed")
        ELSE IF stats.type # "file"
        THEN Fail("Path is not a file: " \o path, path, "not_a_file")
        ELSE OkVoid

(***************************************************************************)
(* sanitizeErrorForLogging: three global replacements on the message of    *)
(* an error, in this order: /\/[^\s]+/g by [PATH], the e-mail pattern by   *)
(* [EMAIL], /\b\d{3}-\d{2}-\d{4}\b/g by [SSN].                             *)
(***************************************************************************)
\* the characters \s matches (those a message of the model can hold)
Whitespace == {" ", "\t", "\n", "\r", "\f"}

\* the characters \d matches
Digits == {"0", "1", "2", "3", "4", "5", "6", "7", "8", "9"}

\* A-Za-z
AsciiLetters == WordChars \ (Digits \cup {"_"})

\* [A-Za-z0-9._%+-]
EmailLocalChars == AsciiLetters \cup Digits \cup {".", "_", "%", "+", "-"}

\* [A-Za-z0-9.-]
EmailDomainChars == AsciiLetters \cup Digits \cup {".", "-"}

\* [A-Z|a-z]: the bar is a member of the class
EmailTldChars == AsciiLetters \cup {"|"}

\* the characters at positions from..to of s all belong to class
AllIn(s, from, to, class) ==
    /\ from >= 1
    /\ to <= Len(s)
    /\ \A k \in from..to : CharAt(s, k) \in class

\* /\/[^\s]+/ at position i: the index of the last character of the
\* (greedy) match, 0 if there is none
PathMatchEnd(s, i) ==
    IF /\ i + 1 <= Len(s)
       /\ CharAt(s, i) = "/"
       /\ CharAt(s, i + 1) \notin Whitespace
    THEN Max({j \in (i + 1)..Len(s) :
                 \A k \in (i + 1)..j : CharAt(s, k) \notin Whitespace})
    ELSE 0

\* the e-mail pattern at position i: a word boundary, a local part, "@",
\* a domain, ".", two or more characters of the last class and a word
\* boundary; each quantifier takes as much as lets the rest match
EmailMatchEnd(s, i) ==
    LET ats == {a \in (i + 1)..Len(s) :
                   /\ CharAt(s, a) = "@"
                   /\ AllIn(s, i, a - 1, EmailLocalChars)}
        ends == {e \in (i + 1)..Len(s) :
                    \E a \in ats : \E dot \in (a + 2)..(e - 2) :
                        /\ AllIn(s, a + 1, dot - 1, EmailDomainChars)
                        /\ CharAt(s, dot) = "."
                        /\ AllIn(s, dot + 1, e, EmailTldChars)
                        /\ WordBoundary(s, e + 1)}
        \* the longest domain first, then the longest last part
        dots == {dot \in 1..Len(s) :
                    \E a \in ats : \E e \in ends :
                        /\ dot >= a + 2
                        /\ dot <= e - 2
                        /\ AllIn(s, a + 1, dot - 1, EmailDomainChars)
                        /\ CharAt(s, dot) = "."
                        /\ AllIn(s, dot + 1, e, EmailTldChars)}
    IN  IF i <= Len(s) /\ WordBoundary(s, i) /\ ends # {}
        THEN LET dot == Max(dots)
             IN  Max({e \in ends : e >= dot + 2
                                   /\ AllIn(s, dot + 1, e, EmailTldChars)})
        ELSE 0

\* \d{3}-\d{2}-\d{4} at position i, without the two word boundaries
SsnShapeAt(s, i) ==
    /\ i >= 1
    /\ i + 10 <= Len(s)
    /\ AllIn(s, i, i + 2, Digits)
    /\ CharAt(s, i + 3) = "-"
    /\ AllIn(s, i + 4, i + 5, Digits)
    /\ CharAt(s, i + 6) = "-"
    /\ AllIn(s, i + 7, i + 10, Digits)

\* /\b\d{3}-\d{2}-\d{4}\b/ at position i
SsnMatchEnd(s, i) ==
    IF SsnShapeAt(s, i) /\ WordBoundary(s, i) /\ WordBoundary(s, i + 11)
    THEN i + 10
    ELSE 0

\* the three patterns of sanitizeErrorForLogging
RegExpMatchEnd(pattern, s, i) ==
    CASE pattern = "path" -> PathMatchEnd(s, i)
      [] pattern = "email" -> EmailMatchEnd(s, i)
      [] pattern = "ssn" -> SsnMatchEnd(s, i)

RECURSIVE ReplaceFrom(_, _, _, _)
\* String.prototype.replace with a global pattern and a plain replacement,
\* from position i on: the leftmost match is replaced and the search goes on
\* behind it; an unmatched character is copied
ReplaceFrom(pattern, s, i, replacement) ==
    IF i > Len(s)
    THEN ""
    ELSE LET end == RegExpMatchEnd(pattern, s, i)
         IN  IF end = 0
             THEN CharAt(s, i) \o ReplaceFrom(pattern, s, i + 1, replacement)
             ELSE replacement \o ReplaceFrom(pattern, s, end + 1, replacement)

Replace(pattern, s, replacement) == ReplaceFrom(pattern, s, 1, replacement)

sanitizeErrorForLogging(error) ==
    LET message1 == Replace("path", error.message, "[PATH]")
        message2 == Replace("email", message1, "[EMAIL]")
    IN  Replace("ssn", message2, "[SSN]")

\* the project /repo with its allowed directory /repo/.claude, a sibling
\* directory whose name starts the same way, a second spelling /cl of the
\* allowed directory, and /etc outside the project; a..b is a file and
\* v1..2 a link whose names contain two dots; what the note f.md and the
\* link l are differs between layouts
Layout(note, link) ==
    [path \in {"/repo", "/repo/src.ts", "/repo/.claude", "/repo/.claude/sub",
               "/repo/.claude/f.md", "/repo/.claude/l", "/repo/.claude/v1..2",
               "/repo/.claude/a..b", "/repo/.claude-x", "/repo/.claude-x/f",
               "/cl", "/etc", "/etc/passwd"} |->
        CASE path \in {"/repo", "/repo/.claude", "/repo/.claude/sub",
                       "/repo/.claude-x", "/etc"} -> Directory
          [] path \in {"/repo/src.ts", "/repo/.claude/a..b",
                       "/repo/.claude-x/f", "/etc/passwd"} -> File
          [] path = "/repo/.claude/v1..2" -> Symlink("/repo/src.ts")
          [] path = "/cl" -> Symlink("/repo/.claude")
          [] path = "/repo/.claude/f.md" -> note
          [] path = "/repo/.claude/l" -> link]

NoteStates == {File, Nothing}

LinkStates ==
    {Nothing, Symlink("/repo/src.ts"), Symlink("/etc/passwd"),
     Symlink("/repo/.claude/f.md"), Symlink("/repo/.claude/l")}

Layouts == {Layout(note, link) : note \in NoteStates, link \in LinkStates}

\* the targets validatePath is asked about
TargetPaths ==
    {"/repo/.claude/f.md", "/repo/.claude/l", "/repo/.claude/v1..2",
     "/repo/.claude/a..b", "/repo/.claude/missing", "/repo/.claude/sub/../f.md", "../l",
     "../absent", "/repo/.claude/../../etc/passwd", "/etc/passwd",
     "/etc/missing", "/repo/.claude", "/repo/.claude-x/f", "/cl/f.md", ""}

AllowedDirs == {"/repo/.claude", "/cl", "/repo/nope"}

(* The caller: while idle no call is in progress and the argument and      *)
(* result slots are cleared; Call passes (prompt, skill, context),         *)
(* CalculateConfidence runs the function to its return or throw, Return    *)
(* hands the outcome back and clears the slots.                            *)
(***************************************************************************)
NoSkill == [name |-> "", keywords |-> <<>>, filePatterns |-> <<>>]

\* no call was made before the one in progress
NoCall == [made |-> FALSE]

NoRequest == [prompt |-> "", context |-> Undefined, minConfidence |-> Undefined]

\* the module has just been loaded: every RegExp object has lastIndex 0
Init ==
    /\ pc = "idle"
    /\ prompt = ""
    /\ skill = NoSkill
    /\ context = Undefined
    /\ result = NoResult
    /\ lastIndex = [n \in DOMAIN SEMANTIC_PATTERNS |-> 0]
    /\ previous = NoCall
    /\ matcherPc = "idle"
    /\ catalog = <<>>
    /\ request = NoRequest
    /\ matcherResult = NoResult
    /\ pathPc = "idle"
    /\ targetPath = ""
    /\ allowedDir = ""
    /\ fs = Layout(File, Nothing)
    /\ resolvedAllowedDir = ""
    /\ pathResult = NoResult
    /\ fsChanges = 0
    /\ logPc = "idle"
    /\ logError = NoError
    /\ logMessage = ""

Call ==
    /\ pc = "idle"
    /\ \E p \in Prompts, sk \in Skills, ctx \in Contexts :
           /\ prompt' = p
           /\ skill' = sk
           /\ context' = ctx
    /\ pc' = "called"
    /\ UNCHANGED <<result, lastIndex, previous, matcherVars, pathVars, logVars>>

\* the RegExp objects after the loop of calculateContentScore has tested the
\* categories of the skill
LastIndexAfterCall(p, skillName) ==
    LET relevantPatterns ==
            NullishCoalesce(skillPatternsGet(skillName),
                            [iterable |-> TRUE, items |-> <<>>])
    IN  [n \in DOMAIN SEMANTIC_PATTERNS |->
            IF relevantPatterns.iterable /\ n \in Range(relevantPatterns.items)
            THEN PatternLastIndex(n, ToLowerCase(p))
            ELSE lastIndex[n]]

CalculateConfidence ==
    /\ pc = "called"
    /\ result' = calculateConfidence(prompt, skill, context)
    /\ lastIndex' = LastIndexAfterCall(prompt, skill.name)
    /\ pc' = "done"
    /\ UNCHANGED <<prompt, skill, context, previous, matcherVars, pathVars, logVars>>

Return ==
    /\ pc = "done"
    /\ pc' = "idle"
    /\ prompt' = ""
    /\ skill' = NoSkill
    /\ context' = Undefined
    /\ result' = NoResult
    /\ previous' = NoCall
    /\ UNCHANGED <<lastIndex, matcherVars, pathVars, logVars>>

Next == Call \/ CalculateConfidence \/ Return

Spec == Init /\ [][Next]_vars

(***************************************************************************)
(* Two calls in a row, the second made while the outcome of the first is   *)
(* still at hand: CallFirst and CallAgain pass arguments from a pool small *)
(* enough to pair every call with every other.                             *)
(***************************************************************************)
TwoPrompts == {"", "API", "query the API: webhook, sse"}

TwoSkills ==
    [name : {"convex-patterns", "bun-patterns"},
     keywords : {<<>>, <<"api">>, <<"api", "api">>},
     filePatterns : {<<>>, <<"convex/**/*.ts">>}]

TwoContexts ==
    {Undefined,
     Some([openFiles |-> Some(<<"convex/orders.ts">>)]),
     Some([openFiles |-> Some(<<"convex/orders.ts", "convex/orders.ts">>)])}

CallFirst ==
    /\ pc = "idle"
    /\ \E p \in TwoPrompts, sk \in TwoSkills, ctx \in TwoContexts :
           /\ prompt' = p
           /\ skill' = sk
           /\ context' = ctx
    /\ pc' = "called"
    /\ UNCHANGED <<result, lastIndex, previous, matcherVars, pathVars, logVars>>

CallAgain ==
    /\ pc = "done"
    /\ ~previous.made
    /\ previous' = [made |-> TRUE, prompt |-> prompt, skill |-> skill,
                    context |-> context, result |-> result]
    /\ \E p \in TwoPrompts, sk \in TwoSkills, ctx \in TwoContexts :
           /\ prompt' = p
           /\ skill' = sk
           /\ context' = ctx
    /\ result' = NoResult
    /\ pc' = "called"
    /\ UNCHANGED <<lastIndex, matcherVars, pathVars, logVars>>

NextTwo == CallFirst \/ CalculateConfidence \/ CallAgain \/ Return

SpecTwo == Init /\ [][NextTwo]_vars

(***************************************************************************)
(* Properties of calculateConfidence.                                      *)
(***************************************************************************)
\* the call has returned a {confidence, details} value
Returned == pc = "done" /\ result.status = "returned"

TableSkillNames ==
    {"convex-patterns", "security-patterns", "react-patterns",
     "typescript-patterns"}

\* C1: whenever calculateConfidence returns, confidence is an integer in
\* 0..100 and so are keywordScore, fileScore and contentScore of the details.
C1_ScoresInRange ==
    Returned =>
        /\ result.confidence \in 0..100
        /\ result.details.keywordScore \in 0..100
        /\ result.details.fileScore \in 0..100
        /\ result.details.contentScore \in 0..100

\* eight keywords matched: the uncapped keyword score would be 105
C1_Witness ==
    /\ Returned
    /\ Len(result.details.keywordMatches) >= 8
    /\ result.details.keywordScore = 100
    /\ result.confidence = 100

\* C2: when some sub-score is > 0, confidence is the integer nearest to
\* (4k + 3f + 3c) / (4[k>0] + 3[f>0] + 3[c>0]) (halves upward), k, f, c being
\* the keyword, file and content sub-scores.
C2_RenormalizedWeightedAverage ==
    Returned =>
        LET k == result.details.keywordScore
            f == result.details.fileScore
            c == result.details.contentScore
            num == 4 * k + 3 * f + 3 * c
            den == (IF k > 0 THEN 4 ELSE 0) + (IF f > 0 THEN 3 ELSE 0)
                   + (IF c > 0 THEN 3 ELSE 0)
        IN  (k > 0 \/ f > 0 \/ c > 0) =>
                /\ 2 * den * result.confidence <= 2 * num + den
                /\ 2 * num + den < 2 * den * (result.confidence + 1)

\* keyword 70 and content 100 alone: (280 + 300) / 7 = 82.86, rounded to 83
C2_Witness ==
    /\ Returned
    /\ result.details.keywordScore = 70
    /\ result.details.fileScore = 0
    /\ result.details.contentScore = 100
    /\ result.confidence = 83

\* C3: when exactly one of the three sub-scores is > 0, confidence equals
\* that sub-score.
C3_SingleSignalIsRawScore ==
    Returned =>
        LET k == result.details.keywordScore
            f == result.details.fileScore
            c == result.details.contentScore
        IN  /\ (k > 0 /\ f = 0 /\ c = 0) => result.confidence = k
            /\ (k = 0 /\ f > 0 /\ c = 0) => result.confidence = f
            /\ (k = 0 /\ f = 0 /\ c > 0) => result.confidence = c

\* only the file signal fired, on two open files
C3_Witness ==
    /\ Returned
    /\ result.details.keywordScore = 0
    /\ result.details.fileScore = 90
    /\ result.details.contentScore = 0
    /\ result.confidence = 90

\* C4: when the keyword, file and content sub-scores are all 0, the call
\* returns (no error) confidence 0 with three empty match lists and three
\* zero scores.
C4_NoSignalGivesZero ==
    (/\ pc = "done"
     /\ calculateKeywordScore(prompt, skill.keywords).score = 0
     /\ calculateFileScore(OpenFilesOf(context), skill.filePatterns).score = 0
     /\ ~calculateContentScore(prompt, skill.name).threw
     /\ calculateContentScore(prompt, skill.name).score = 0)
    => /\ result.status = "returned"
       /\ result.confidence = 0
       /\ result.details.keywordMatches = <<>>
       /\ result.details.fileMatches = <<>>
       /\ result.details.contentMatches = <<>>
       /\ result.details.keywordScore = 0
       /\ result.details.fileScore = 0
       /\ result.details.contentScore = 0

\* a prompt, keywords, patterns and open files were all given, none fired
C4_Witness ==
    /\ Returned
    /\ prompt # ""
    /\ Len(skill.keywords) > 0
    /\ Len(skill.filePatterns) > 0
    /\ Len(OpenFilesOf(context)) > 0
    /\ skill.name \in TableSkillNames
    /\ result.confidence = 0

\* C5: calculateConfidence never throws: every call, for every prompt,
\* skill descriptor and present or absent context, returns a
\* {confidence, details} result.
C5_NeverThrows == pc = "done" => result.status = "returned"

\* C6: for a skill whose name is not one of the four names of the
\* skill-to-category table, every call yields contentScore 0 and an empty
\* contentMatches list.
C6_UnlistedSkillScoresNoContent ==
    (pc = "done" /\ skill.name \notin TableSkillNames) =>
        /\ result.status = "returned"
        /\ result.details.contentScore = 0
        /\ result.details.contentMatches = <<>>

C8_ScoreByDistinctMatches ==
    Returned =>
        LET matched == {kw \in Range(skill.keywords) :
                            Includes(ToLowerCase(prompt), kw)}
            d == Cardinality(matched)
        IN  result.details.keywordScore =
                IF d = 0 THEN 0 ELSE Min(100, 70 + 5 * (d - 1))

\* C9: keyword matching ignores letter case: every keyword that is a
\* substring of the prompt when both are compared in lower case is matched,
\* also a keyword written with upper-case letters.
C9_CaseInsensitiveKeywords ==
    Returned =>
        \A kw \in Range(skill.keywords) :
            Includes(ToLowerCase(prompt), ToLowerCase(kw))
                => /\ kw \in Range(result.details.keywordMatches)
                   /\ result.details.keywordScore >= 70

C11_NoFilePatternsIgnoresOpenFiles ==
    (pc = "done" /\ Len(skill.filePatterns) = 0) =>
        /\ calculateFileScore(OpenFilesOf(context), skill.filePatterns)
               = [score |-> 0, matches |-> <<>>]
        /\ result.status = "returned" =>
               /\ result.details.fileScore = 0
               /\ result.details.fileMatches = <<>>
        /\ result = calculateConfidence(prompt, skill, Undefined)

\* two files are open, the skill has no file patterns, the keyword signal
\* alone decides
C11_Witness ==
    /\ Returned
    /\ Len(skill.filePatterns) = 0
    /\ Len(OpenFilesOf(context)) = 2
    /\ result.details.fileScore = 0
    /\ result.confidence = 70

\* the second of two calls has ended and was given the arguments of the first
SameCallTwice ==
    /\ pc = "done"
    /\ previous.made
    /\ previous.prompt = prompt
    /\ previous.skill = skill
    /\ previous.context = context

BothReturned ==
    /\ pc = "done"
    /\ previous.made
    /\ previous.result.status = "returned"
    /\ result.status = "returned"

\* the three sub-scores of a returned result
SubScores(r) ==
    <<r.details.keywordScore, r.details.fileScore, r.details.contentScore>>

\* C13: confidence is monotone in the sub-scores: of two results, one whose
\* keyword, file and content scores are each at most the other's has a
\* confidence that is at most the other's (so equal sub-scores give equal
\* confidence).
C13_MonotoneInSubScores ==
    BothReturned =>
        ((\A i \in 1..3 : SubScores(previous.result)[i] <= SubScores(result)[i])
            => previous.result.confidence <= result.confidence)

\* C13 (amended): confidence is a function of the sub-scores, and it is
\* monotone among results with the same active signals: of two results in
\* which the same sub-scores are > 0, one whose sub-scores are each at most
\* the other's has a confidence that is at most the other's.
C13_MonotoneForSameActiveSignals ==
    BothReturned =>
        LET a == SubScores(previous.result)
            b == SubScores(result)
        IN  ((\A i \in 1..3 : a[i] <= b[i] /\ (a[i] > 0 <=> b[i] > 0))
                => previous.result.confidence <= result.confidence)

\* keyword and content are active in both results and the later result has
\* the higher keyword score and the higher confidence
C13_Witness ==
    /\ BothReturned
    /\ SubScores(previous.result) = <<70, 0, 100>>
    /\ SubScores(result) = <<75, 0, 100>>
    /\ previous.result.confidence = 83
    /\ result.confidence = 86

(***************************************************************************)
(* The pattern matcher (specification, 4.2).  It scores every skill of the *)
(* catalog with calculateConfidence, keeps the skills whose confidence     *)
(* reaches the minimum confidence (70 when none is given) and sorts what   *)
(* it kept by descending confidence.  The order of equal confidences is    *)
(* left to the sort, so every descending order of the kept records is a    *)
(* possible outcome.  An exception of calculateConfidence is not caught.   *)
(***************************************************************************)
DEFAULT_MIN_CONFIDENCE == 70

\* a match record: the skill, its confidence, the flattened keyword matches
\* and the details
SkillMatch(sk, scored) ==
    [skill |-> sk,
     confidence |-> scored.confidence,
     matchedKeywords |-> scored.details.keywordMatches,
     details |-> scored.details]

\* the outcome of calculateConfidence for every skill, in catalog order
ScoreCatalog(p, skills, ctx) ==
    [i \in 1..Len(skills) |-> calculateConfidence(p, skills[i], ctx)]

\* the records of the skills whose confidence is >= minConfidence, in
\* catalog order
RetainMatches(skills, scored, minConfidence) ==
    LET all == [i \in 1..Len(skills) |-> SkillMatch(skills[i], scored[i])]
    IN  SelectSeq(all, LAMBDA m : m.confidence >= minConfidence)

Arrangements(n) ==
    {f \in [1..n -> 1..n] : \A i, j \in 1..n : f[i] = f[j] => i = j}

\* variant: the sort is ascending
SortedOrders_Ascending(ms) ==
    {[i \in 1..Len(ms) |-> ms[f[i]]] : f \in
        {f \in Arrangements(Len(ms)) :
            \A i, j \in 1..Len(ms) :
                i < j => ms[f[i]].confidence <= ms[f[j]].confidence}}

\* every arrangement of ms a descending sort by confidence can produce
SortedOrders(ms) ==
    {[i \in 1..Len(ms) |-> ms[f[i]]] : f \in
        {f \in Arrangements(Len(ms)) :
            \A i, j \in 1..Len(ms) :
                i < j => ms[f[i]].confidence >= ms[f[j]].confidence}}

\* the possible outcomes of the matcher
matchSkills(p, skills, ctx, minConfidence) ==
    LET scored == ScoreCatalog(p, skills, ctx)
        threshold == NullishCoalesce(minConfidence, DEFAULT_MIN_CONFIDENCE)
    IN  IF \E i \in 1..Len(skills) : scored[i].status = "threw"
        THEN {[status |-> "threw", error |-> "TypeError"]}
        ELSE {[status |-> "returned", matches |-> ms,
               totalSkillsScanned |-> Len(skills)] :
                 ms \in SortedOrders(RetainMatches(skills, scored, threshold))}

\* catalog entries: content and keyword signal, keyword signal alone (twice,
\* under two names), no signal, and a name that is no key of the category
\* table but a property of every object
MatcherSkills ==
    {[name |-> "convex-patterns", keywords |-> <<"api">>, filePatterns |-> <<>>],
     [name |-> "bun-patterns", keywords |-> <<"api">>, filePatterns |-> <<>>],
     [name |-> "tailwind-patterns", keywords |-> <<"api">>,
      filePatterns |-> <<"convex/**/*.ts">>],
     [name |-> "testing-patterns", keywords |-> <<>>, filePatterns |-> <<>>],
     [name |-> "constructor", keywords |-> <<>>, filePatterns |-> <<>>]}

Catalogs == SeqsUpTo(MatcherSkills, MaxCatalog)

MinConfidences == {Undefined, Some(0), Some(70), Some(83), Some(84), Some(101)}

MatcherContexts ==
    {Undefined, Some([openFiles |-> Some(<<"convex/orders.ts">>)])}

MatcherCall ==
    /\ matcherPc = "idle"
    /\ \E p \in TwoPrompts, skills \in Catalogs, ctx \in MatcherContexts,
          t \in MinConfidences :
           /\ request' = [prompt |-> p, context |-> ctx, minConfidence |-> t]
           /\ catalog' = skills
    /\ matcherPc' = "called"
    /\ UNCHANGED <<matcherResult, scorerVars, pathVars, logVars>>

MatchSkills ==
    /\ matcherPc = "called"
    /\ matcherResult' \in matchSkills(request.prompt, catalog, request.context,
                                      request.minConfidence)
    /\ matcherPc' = "done"
    /\ UNCHANGED <<catalog, request, scorerVars, pathVars, logVars>>

MatcherReturn ==
    /\ matcherPc = "done"
    /\ matcherPc' = "idle"
    /\ catalog' = <<>>
    /\ request' = NoRequest
    /\ matcherResult' = NoResult
    /\ UNCHANGED <<scorerVars, pathVars, logVars>>

NextMatcher == MatcherCall \/ MatchSkills \/ MatcherReturn

SpecMatcher == Init /\ [][NextMatcher]_vars

(***************************************************************************)
(* Properties of the pattern matcher.                                      *)
(***************************************************************************)
MatcherReturned == matcherPc = "done" /\ matcherResult.status = "returned"

\* the positions of the catalog whose skill has a confidence >= t
Qualifying(t) ==
    {i \in 1..Len(catalog) :
        LET r == calculateConfidence(request.prompt, catalog[i], request.context)
        IN  r.status = "returned" /\ r.confidence >= t}

\* C14: the matcher returns, and its result lists exactly the skills of the
\* catalog whose confidence is >= the minimum confidence (70 when none is
\* given), each catalog entry once: with minimum confidence 0 every skill,
\* for an empty catalog nothing.
C14_ExactlyTheSkillsAtOrAboveThreshold ==
    matcherPc = "done" =>
        LET t == NullishCoalesce(request.minConfidence, 70)
        IN  /\ matcherResult.status = "returned"
            /\ \E f \in [Qualifying(t) -> 1..Len(matcherResult.matches)] :
                   /\ \A i, j \in Qualifying(t) : f[i] = f[j] => i = j
                   /\ \A k \in 1..Len(matcherResult.matches) :
                          \E i \in Qualifying(t) : f[i] = k
                   /\ \A i \in Qualifying(t) :
                          /\ matcherResult.matches[f[i]].skill = catalog[i]
                          /\ matcherResult.matches[f[i]].confidence =
                                 calculateConfidence(request.prompt, catalog[i],
                                                     request.context).confidence
            /\ (t = 0 => Len(matcherResult.matches) = Len(catalog))

\* C15: the list the matcher returns is in non-increasing order of
\* confidence.
C15_SortedByConfidence ==
    MatcherReturned =>
        \A i, j \in 1..Len(matcherResult.matches) :
            i < j => matcherResult.matches[i].confidence
                         >= matcherResult.matches[j].confidence

\* a skill of confidence 83 was listed second in the catalog and comes
\* first in the result
C15_Witness ==
    /\ MatcherReturned
    /\ Len(matcherResult.matches) = 2
    /\ matcherResult.matches[1].confidence = 83
    /\ matcherResult.matches[2].confidence = 70
    /\ matcherResult.matches[1].skill = catalog[2]

(***************************************************************************)
(* validatePath, one action for each stretch of the function between two   *)
(* accesses to the filesystem, and another process that changes the        *)
(* filesystem while the call runs; validateIsDirectory and validateIsFile, *)
(* which access the filesystem once.                                       *)
(***************************************************************************)
InitPath ==
    /\ pc = "idle"
    /\ prompt = ""
    /\ skill = NoSkill
    /\ context = Undefined
    /\ result = NoResult
    /\ lastIndex = [n \in DOMAIN SEMANTIC_PATTERNS |-> 0]
    /\ previous = NoCall
    /\ matcherPc = "idle"
    /\ catalog = <<>>
    /\ request = NoRequest
    /\ matcherResult = NoResult
    /\ pathPc = "idle"
    /\ targetPath = ""
    /\ allowedDir = ""
    /\ fs \in Layouts
    /\ resolvedAllowedDir = ""
    /\ pathResult = NoResult
    /\ fsChanges = 0
    /\ logPc = "idle"
    /\ logError = NoError
    /\ logMessage = ""

ValidatePathCall ==
    /\ pathPc = "idle"
    /\ \E target \in TargetPaths, allowed \in AllowedDirs :
           /\ targetPath' = target
           /\ allowedDir' = allowed
    /\ pathPc' = "containment"
    /\ UNCHANGED <<fs, resolvedAllowedDir, pathResult, fsChanges,
                   scorerVars, matcherVars, logVars>>

\* lines 44-78
CheckContainment ==
    /\ pathPc = "containment"
    /\ LET step == ContainmentStep(fs, targetPath, allowedDir)
       IN  /\ resolvedAllowedDir' = step.resolvedAllowedDir
           /\ IF step.passed
              THEN pathPc' = "existence" /\ UNCHANGED pathResult
              ELSE pathPc' = "done" /\ pathResult' = step.result
    /\ UNCHANGED <<targetPath, allowedDir, fs, fsChanges, scorerVars,
                   matcherVars, logVars>>

\* lines 80-90
CheckExistence ==
    /\ pathPc = "existence"
    /\ LET step == ExistenceStep(fs, targetPath)
       IN  IF step.passed
           THEN pathPc' = "resolution" /\ UNCHANGED pathResult
           ELSE pathPc' = "done" /\ pathResult' = step.result
    /\ UNCHANGED <<targetPath, allowedDir, fs, resolvedAllowedDir, fsChanges,
                   scorerVars, matcherVars, logVars>>

\* lines 92-137
ResolveAndReturn ==
    /\ pathPc = "resolution"
    /\ pathResult' = ResolutionStep(fs, targetPath, resolvedAllowedDir)
    /\ pathPc' = "done"
    /\ UNCHANGED <<targetPath, allowedDir, fs, resolvedAllowedDir, fsChanges,
                   scorerVars, matcherVars, logVars>>

\* another process removes, creates or retargets the note or the link
\* between two steps of the call
FsChange ==
    /\ pathPc \in {"containment", "existence", "resolution"}
    /\ fsChanges < MaxFsChanges
    /\ \E layout \in Layouts :
           /\ layout # fs
           /\ \/ layout["/repo/.claude/f.md"] = fs["/repo/.claude/f.md"]
              \/ layout["/repo/.claude/l"] = fs["/repo/.claude/l"]
           /\ fs' = layout
    /\ fsChanges' = fsChanges + 1
    /\ UNCHANGED <<pathPc, targetPath, allowedDir, resolvedAllowedDir,
                   pathResult, scorerVars, matcherVars, logVars>>

ValidatePathReturn ==
    /\ pathPc = "done"
    /\ pathPc' = "idle"
    /\ targetPath' = ""
    /\ allowedDir' = ""
    /\ resolvedAllowedDir' = ""
    /\ pathResult' = NoResult
    /\ fsChanges' = 0
    /\ UNCHANGED <<fs, scorerVars, matcherVars, logVars>>

\* the paths validateIsDirectory and validateIsFile are asked about
StatPaths ==
    {"/repo/.claude", "/repo/.claude/f.md", "/repo/.claude/l",
     "/repo/.claude/missing", "/repo/src.ts", "/repo/.claude/f.md/x", ""}

StatCall ==
    /\ pathPc = "idle"
    /\ targetPath' \in StatPaths
    /\ pathPc' \in {"validateIsDirectory", "validateIsFile"}
    /\ UNCHANGED <<allowedDir, fs, resolvedAllowedDir, pathResult, fsChanges,
                   scorerVars, matcherVars, logVars>>

ValidateIsDirectory ==
    /\ pathPc = "validateIsDirectory"
    /\ pathResult' = validateIsDirectory(fs, targetPath)
    /\ pathPc' = "directoryDone"
    /\ UNCHANGED <<targetPath, allowedDir, fs, resolvedAllowedDir, fsChanges,
                   scorerVars, matcherVars, logVars>>

ValidateIsFile ==
    /\ pathPc = "validateIsFile"
    /\ pathResult' = validateIsFile(fs, targetPath)
    /\ pathPc' = "fileDone"
    /\ UNCHANGED <<targetPath, allowedDir, fs, resolvedAllowedDir, fsChanges,
                   scorerVars, matcherVars, logVars>>

StatReturn ==
    /\ pathPc \in {"directoryDone", "fileDone"}
    /\ pathPc' = "idle"
    /\ targetPath' = ""
    /\ pathResult' = NoResult
    /\ UNCHANGED <<allowedDir, fs, resolvedAllowedDir, fsChanges, scorerVars,
                   matcherVars, logVars>>

NextPath ==
    \/ ValidatePathCall
    \/ CheckContainment
    \/ CheckExistence
    \/ ResolveAndReturn
    \/ FsChange
    \/ ValidatePathReturn
    \/ StatCall
    \/ ValidateIsDirectory
    \/ ValidateIsFile
    \/ StatReturn

SpecPath == InitPath /\ [][NextPath]_vars

(***************************************************************************)
(* Properties of validatePath.                                             *)
(***************************************************************************)
\* the call has ended
PathDone == pathPc = "done"

\* the absolute path the target stands for, links not resolved
AbsoluteTarget == resolve(normalize(targetPath))

\* the directory above a canonical path, with its trailing separator
ParentPrefix(path) ==
    LET segs == NormalizeSegments(SplitPath(path), FALSE, <<>>)
    IN  WithSeparator(sep \o Join(SubSeq(segs, 1, Len(segs) - 1)))

\* C16: when validatePath returns ok, the value is the canonical path of the
\* target (every link resolved, in the filesystem as it is at the return)
\* and starts with the project prefix, the parent directory of the
\* canonical allowed directory plus separator; also when the filesystem
\* changed during the call.
C16_OkValueIsCanonicalInsideProject ==
    (PathDone /\ pathResult.ok) =>
        /\ realpathSync(fs, AbsoluteTarget) = [ok |-> TRUE, path |-> pathResult.value]
        /\ realpathSync(fs, pathResult.value) = [ok |-> TRUE, path |-> pathResult.value]
        /\ realpathSync(fs, allowedDir).ok
        /\ StartsWith(pathResult.value,
                      ParentPrefix(realpathSync(fs, allowedDir).path))

\* the link was retargeted during the call, from outside the project to a
\* file of the project outside the allowed directory
C16_Witness ==
    /\ PathDone
    /\ pathResult.ok
    /\ fsChanges = 1
    /\ targetPath = "/repo/.claude/l"
    /\ allowedDir = "/cl"
    /\ pathResult.value = "/repo/src.ts"

\* C17: when the allowed directory exists, a target whose normalized
\* absolute path does not start with the canonical allowed directory plus
\* separator is refused with outside_allowed_directory, by a result that is
\* the same whether the target exists or not.
C17_OutsideAllowedDirectory ==
    (/\ PathDone
     /\ realpathSync(fs, allowedDir).ok
     /\ ~StartsWith(AbsoluteTarget, realpathSync(fs, allowedDir).path \o "/"))
    => pathResult =
           Fail("Access denied: Path is outside allowed directory (.claude/)",
                targetPath, "outside_allowed_directory")

\* a target outside the allowed directory that does not exist
C17_Witness ==
    /\ PathDone
    /\ targetPath = "/etc/missing"
    /\ ~existsSync(fs, "/etc/missing")
    /\ allowedDir = "/repo/.claude"
    /\ ~pathResult.ok
    /\ pathResult.error.reason = "outside_allowed_directory"

FailureReasons ==
    {"allowed_dir_not_found", "outside_allowed_directory", "path_not_found",
     "path_resolution_failed", "symlink_outside_project",
     "path_traversal_detected"}

\* C18: a target whose normalized path string contains ".." is never
\* answered with ok: the call fails with path_traversal_detected or with the
\* reason of an earlier check; and a target that climbs from the allowed
\* directory to /etc/passwd is never answered with ok.
C18_NoOkWithDotDot ==
    PathDone =>
        /\ Includes(normalize(targetPath), "..") =>
               /\ ~pathResult.ok
               /\ pathResult.error.reason \in FailureReasons
        /\ targetPath = "/repo/.claude/../../etc/passwd" => ~pathResult.ok

\* a relative target that climbs out of the working directory to a link
\* of the allowed directory whose target lies in the project
C18_Witness ==
    /\ PathDone
    /\ targetPath = "../l"
    /\ realpathSync(fs, AbsoluteTarget) = [ok |-> TRUE, path |-> "/repo/src.ts"]
    /\ ~pathResult.ok
    /\ pathResult.error.reason = "path_traversal_detected"

\* the target is given by its absolute path, which lies below the canonical
\* allowed directory and names a symbolic link that resolves; nothing
\* changed on disk during the call
SymlinkInAllowedDir ==
    /\ PathDone
    /\ fsChanges = 0
    /\ realpathSync(fs, allowedDir).ok
    /\ targetPath = AbsoluteTarget
    /\ StartsWith(targetPath, realpathSync(fs, allowedDir).path \o "/")
    /\ Lookup(fs, targetPath).type = "link"
    /\ realpathSync(fs, targetPath).ok

\* C19: for a symbolic link in the allowed directory whose resolved target
\* lies in the project root validatePath returns ok with the resolved
\* target; when the resolved target lies outside the project root it fails
\* with symlink_outside_project.
C19_SymlinkInsideOrOutsideProject ==
    SymlinkInAllowedDir =>
        LET resolved == realpathSync(fs, targetPath).path
            projectPrefix == ParentPrefix(realpathSync(fs, allowedDir).path)
        IN  IF StartsWith(resolved, projectPrefix)
            THEN pathResult = Ok(resolved)
            ELSE /\ ~pathResult.ok
                 /\ pathResult.error.reason = "symlink_outside_project"

\* "ok" or the reason of the failure
Outcome == IF pathResult.ok THEN "ok" ELSE pathResult.error.reason

\* the outcome the six checks give when they are applied, in their order, to
\* the filesystem as it is
FirstFailingCheck ==
    LET allowed == realpathSync(fs, allowedDir)
        resolved == realpathSync(fs, AbsoluteTarget)
    IN  IF ~allowed.ok THEN "allowed_dir_not_found"
        ELSE IF ~StartsWith(AbsoluteTarget, allowed.path \o "/")
        THEN "outside_allowed_directory"
        ELSE IF ~existsSync(fs, AbsoluteTarget) THEN "path_not_found"
        ELSE IF ~resolved.ok THEN "path_resolution_failed"
        ELSE IF ~StartsWith(resolved.path, ParentPrefix(allowed.path))
        THEN "symlink_outside_project"
        ELSE IF Includes(normalize(targetPath), "..")
        THEN "path_traversal_detected"
        ELSE "ok"

\* C20: the checks are applied in the order allowed-root resolution,
\* containment of the unresolved path, existence, symlink resolution,
\* project-root containment, ".." check, and the call ends with the reason
\* of the first of them that fails: on an unchanging filesystem the outcome
\* is that of the first failing check, and whatever happens on disk a
\* missing allowed root gives allowed_dir_not_found and an unresolved path
\* outside the allowed directory gives outside_allowed_directory.
C20_FirstFailingCheckDecides ==
    PathDone =>
        /\ fsChanges = 0 => Outcome = FirstFailingCheck
        /\ FirstFailingCheck \in {"allowed_dir_not_found",
                                  "outside_allowed_directory"}
               => Outcome = FirstFailingCheck

\* the target is missing and its normalized path keeps "..": the existence
\* check comes first
C20_Witness ==
    /\ PathDone
    /\ fsChanges = 0
    /\ targetPath = "../absent"
    /\ allowedDir = "/repo/.claude"
    /\ Includes(normalize(targetPath), "..")
    /\ Outcome = "path_not_found"

\* C21: every failure of validatePath carries the targetPath argument as
\* error.attemptedPath.
C21_FailureCarriesTargetPath ==
    (PathDone /\ ~pathResult.ok) =>
        pathResult.error.attemptedPath = targetPath

\* a Result: ok with a value, or a failure with a SecurityError
IsResult(r) ==
    \/ DOMAIN r = {"ok", "value"} /\ r.ok
    \/ /\ DOMAIN r = {"ok", "error"}
       /\ ~r.ok
       /\ r.error.name = "SecurityError"

HasDotDotSegment(path) ==
    \E i \in 1..Len(SplitPath(path)) : SplitPath(path)[i] = ".."

\* C23: validatePath fails with path_traversal_detected exactly when checks
\* 1 to 6 pass and the normalized target has a ".." segment; a target that
\* passes checks 1 to 6 and has no ".." segment in its normalized path (a
\* name that merely contains two dots) is accepted.
C23_TraversalIffDotDotSegment ==
    (PathDone /\ fsChanges = 0) =>
        LET passes1to6 == FirstFailingCheck \in {"path_traversal_detected", "ok"}
            segment == HasDotDotSegment(normalize(targetPath))
        IN  /\ (Outcome = "path_traversal_detected") <=> (passes1to6 /\ segment)
            /\ (passes1to6 /\ ~segment) => pathResult.ok


(***************************************************************************)
(* The caller of sanitizeErrorForLogging: an error is about to be logged,  *)
(* its message is sanitized, the sanitized message is written.  The errors *)
(* are those validatePath, validateIsDirectory and validateIsFile return   *)
(* and errors of other origin whose messages hold paths, addresses and     *)
(* numbers.                                                                *)
(***************************************************************************)
\* validatePath as one evaluation on an unchanging filesystem
validatePath(files, target, allowed) ==
    LET containment == ContainmentStep(files, target, allowed)
        existence == ExistenceStep(files, target)
    IN  IF ~containment.passed THEN containment.result
        ELSE IF ~existence.passed THEN existence.result
        ELSE ResolutionStep(files, target, containment.resolvedAllowedDir)

\* the errors the three validators return
SecurityErrors ==
    LET Errors(results) == {r.error : r \in {x \in results : ~x.ok}}
    IN  Errors({validatePath(files, target, allowed) :
                   files \in Layouts, target \in TargetPaths,
                   allowed \in AllowedDirs})
        \cup Errors({validateIsDirectory(files, path) :
                        files \in Layouts, path \in StatPaths})
        \cup Errors({validateIsFile(files, path) :
                        files \in Layouts, path \in StatPaths})

Error(message) == [name |-> "Error", message |-> message]

\* messages of other errors
ErrorMessages ==
    {"",
     "connection refused",
     "ENOENT: open '/home/bob/.ssh/id_rsa'",
     "cannot read /etc/passwd and /etc/shadow",
     "see //host/share",
     "a/ b",
     "trailing /",
     "mail to bob@example.com failed",
     "user a.b+c@mail.example.org, retry",
     "bob@example.com_",
     "bob@example.c",
     "bob@host/example.com",
     "SSN 123-45-6789 rejected",
     "ssn=123-45-6789;",
     "ssn_123-45-6789",
     "id 1123-45-6789",
     "id 123-45-67890",
     "123-45-678",
     "bob@example.com 123-45-6789 /tmp/x",
     "GET https://api.example.com/v1 failed",
     "from <alice@example.org>",
     "x@y.io",
     "tab\t/var/log/app.log\tend",
     "no 12-345-6789 here",
     "123-45-6789 and 987-65-4321",
     "C:\\Users\\bob\\x.txt"}

LogErrors == SecurityErrors \cup {Error(message) : message \in ErrorMessages}

LogCall ==
    /\ logPc = "idle"
    /\ \E error \in LogErrors :
           logError' = error
    /\ logPc' = "called"
    /\ UNCHANGED <<logMessage, scorerVars, matcherVars, pathVars>>

SanitizeErrorForLogging ==
    /\ logPc = "called"
    /\ logMessage' = sanitizeErrorForLogging(logError)
    /\ logPc' = "done"
    /\ UNCHANGED <<logError, scorerVars, matcherVars, pathVars>>

LogReturn ==
    /\ logPc = "done"
    /\ logPc' = "idle"
    /\ logError' = NoError
    /\ logMessage' = ""
    /\ UNCHANGED <<scorerVars, matcherVars, pathVars>>

NextLog == LogCall \/ SanitizeErrorForLogging \/ LogReturn

SpecLog == Init /\ [][NextLog]_vars

LogDone == logPc = "done"

\* s holds a "/" followed by a character that is not whitespace
HasPathFragment(s) ==
    \E i \in 1..(Len(s) - 1) :
        CharAt(s, i) = "/" /\ CharAt(s, i + 1) \notin Whitespace

\* s holds local@domain.tld with a last part of two or more letters
HasEmailLike(s) ==
    \E a \in 2..Len(s) : \E dot \in (a + 2)..(Len(s) - 2) :
        /\ CharAt(s, a) = "@"
        /\ CharAt(s, a - 1) \in EmailLocalChars
        /\ AllIn(s, a + 1, dot - 1, EmailDomainChars)
        /\ CharAt(s, dot) = "."
        /\ AllIn(s, dot + 1, dot + 2, AsciiLetters)

\* s holds ddd-dd-dddd
HasSsnLike(s) == \E i \in 1..Len(s) : SsnShapeAt(s, i)

\* C24: the string sanitizeErrorForLogging returns for an error holds no
\* absolute path fragment ("/" followed by a character that is not
\* whitespace), no e-mail-like substring and no substring of the shape
\* ddd-dd-dddd
C24_SanitizedMessageHoldsNoPathEmailSsn ==
    LogDone =>
        /\ ~HasPathFragment(logMessage)
        /\ ~HasEmailLike(logMessage)
        /\ ~HasSsnLike(logMessage)


\* C25: when the symlink resolution of validatePath runs (the existence
\* check has passed) and the target can no longer be resolved, because
\* another process removed it or made it a link that leads nowhere, the call
\* returns the failure path_resolution_failed: it neither throws nor
\* returns ok.
C25_RaceGivesResolutionFailed ==
    [][(/\ pathPc = "resolution"
        /\ pathPc' = "done"
        /\ ~realpathSync(fs, AbsoluteTarget).ok)
           => pathResult' = Fail("Cannot resolve path: " \o targetPath,
                                 targetPath, "path_resolution_failed")]_vars

\* the target was there at the existence check and is gone, or a link that
\* leads to itself, at the resolution
C25_Witness ==
    /\ PathDone
    /\ fsChanges = 1
    /\ allowedDir = "/repo/.claude"
    /\ targetPath \in {"/repo/.claude/f.md", "/repo/.claude/l"}
    /\ ~realpathSync(fs, AbsoluteTarget).ok
    /\ ~pathResult.ok
    /\ pathResult.error.reason = "path_resolution_failed"


\* matches holds the entries of input at the positions picked, each once
\* per position, in the order of input
IsSelection(matches, input, picked) ==
    /\ Len(matches) = Cardinality(picked)
    /\ \A k \in 1..Len(matches) :
           \E i \in picked :
               /\ Cardinality({j \in picked : j < i}) = k - 1
               /\ matches[k] = input[i]

\* skillPatterns[skillName] ?? []
CategoriesOf(skillName) ==
    IF skillName \in DOMAIN skillPatterns THEN skillPatterns[skillName]
                                          ELSE <<>>

\* C26: the match lists of a returned result are order-preserving
\* sub-sequences of their inputs: keywordMatches holds the matching entries
\* of skill.keywords in list order, fileMatches the matching open files in
\* input order, each once however many patterns match it, contentMatches the
\* matching categories in the order of the skill's category list.
C26_MatchListsAreSubsequences ==
    Returned =>
        LET normalizedPrompt == ToLowerCase(prompt)
            openFiles == OpenFilesOf(context)
            categories == CategoriesOf(skill.name)
            keywordHits ==
                {i \in 1..Len(skill.keywords) :
                    Includes(normalizedPrompt, skill.keywords[i])}
            fileHits ==
                {i \in 1..Len(openFiles) :
                    \E pattern \in Range(skill.filePatterns) :
                        minimatch(openFiles[i], pattern, TRUE)}
            categoryHits ==
                {i \in 1..Len(categories) :
                    RegExpTest(SEMANTIC_PATTERNS[categories[i]],
                               normalizedPrompt)}
        IN  /\ IsSelection(result.details.keywordMatches, skill.keywords,
                           keywordHits)
            /\ IsSelection(result.details.fileMatches, openFiles, fileHits)
            /\ IsSelection(result.details.contentMatches, categories,
                           categoryHits)

\* two open files, the first matched by both patterns of the skill and
\* listed once, with several but not all keywords and several categories
\* matched as well
C26_Witness ==
    /\ Returned
    /\ skill.filePatterns = <<"**/*.ts", "*.ts">>
    /\ OpenFilesOf(context) = <<".env.ts", "convex/orders.ts">>
    /\ result.details.fileMatches = <<".env.ts", "convex/orders.ts">>
    /\ Len(result.details.keywordMatches) >= 2
    /\ Len(result.details.keywordMatches) < Len(skill.keywords)
    /\ Len(result.details.contentMatches) >= 2


\* the sub-scores of the active signals of the returned result
ActiveSubScores ==
    {s \in {result.details.keywordScore, result.details.fileScore,
            result.details.contentScore} : s > 0}

\* C27: in a returned result with an active signal, confidence lies between
\* the smallest and the largest active sub-score; confidence is never in
\* 1..69, and it reaches the default threshold 70 exactly when some signal
\* fired.
C27_ConfidenceBetweenActiveScores ==
    Returned =>
        /\ \A lo, hi \in ActiveSubScores :
               ((\A s \in ActiveSubScores : lo <= s /\ s <= hi))
                   => (lo <= result.confidence /\ result.confidence <= hi)
        /\ result.confidence \notin 1..69
        /\ (result.confidence >= 70) <=> (ActiveSubScores # {})

\* three different active sub-scores, confidence strictly between the
\* smallest and the largest
C27_Witness ==
    /\ Returned
    /\ Cardinality(ActiveSubScores) = 3
    /\ \E lo, hi \in ActiveSubScores :
           lo < result.confidence /\ result.confidence < hi


\* path names something and no component of it is a symbolic link
Canonical(path) == realpathSync(fs, path) = [ok |-> TRUE, path |-> path]

\* C28: on an unchanging filesystem, when the allowed directory exists and
\* is canonical, every existing target strictly below it that has no
\* symbolic link component and whose normalized path holds no ".." is
\* accepted: validatePath returns ok with the target's normalized absolute
\* path.
C28_PlainTargetIsAccepted ==
    (/\ PathDone
     /\ fsChanges = 0
     /\ Canonical(allowedDir)
     /\ StartsWith(AbsoluteTarget, allowedDir \o sep)
     /\ Canonical(AbsoluteTarget)
     /\ ~Includes(normalize(targetPath), ".."))
        => pathResult = Ok(AbsoluteTarget)

\* a target written with a ".." segment that normalization removes
C28_Witness ==
    /\ PathDone
    /\ fsChanges = 0
    /\ allowedDir = "/repo/.claude"
    /\ targetPath = "/repo/.claude/sub/../f.md"
    /\ Canonical(AbsoluteTarget)
    /\ pathResult = Ok("/repo/.claude/f.md")


\* C29: the containment check wants the target strictly below the allowed
\* directory: a target that is the allowed directory itself, and a target
\* whose path merely starts with the allowed directory's path without the
\* separator behind it (a sibling such as /repo/.claude-x/f), fail with
\* outside_allowed_directory.
C29_RootAndSiblingAreOutside ==
    (PathDone /\ realpathSync(fs, allowedDir).ok) =>
        LET root == realpathSync(fs, allowedDir).path
            isRoot == AbsoluteTarget = root
            isSibling == /\ StartsWith(AbsoluteTarget, root)
                         /\ ~isRoot
                         /\ CharAt(AbsoluteTarget, Len(root) + 1) # sep
        IN  (isRoot \/ isSibling) =>
                /\ ~pathResult.ok
                /\ pathResult.error.reason = "outside_allowed_directory"

\* the allowed directory, which exists, given as the target
C29_Witness ==
    /\ PathDone
    /\ allowedDir = "/repo/.claude"
    /\ targetPath = allowedDir
    /\ existsSync(fs, targetPath)
    /\ ~pathResult.ok
    /\ pathResult.error.reason = "outside_allowed_directory"


\* C30: a skill whose keyword list holds the empty string matches every
\* prompt, the empty prompt too: in the returned result "" is among the
\* keyword matches, the keyword sub-score is >= 70 and confidence is >= 70.
C30_EmptyKeywordMatchesEveryPrompt ==
    (Returned /\ "" \in Range(skill.keywords)) =>
        /\ "" \in Range(result.details.keywordMatches)
        /\ result.details.keywordScore >= 70
        /\ result.confidence >= 70

\* the empty keyword alone against the empty prompt
C30_Witness ==
    /\ Returned
    /\ prompt = ""
    /\ skill.keywords = <<"">>
    /\ result.details.keywordMatches = <<"">>
    /\ result.details.keywordScore = 70
    /\ result.confidence = 70

====
